---- MODULE Spec2Model ----
(***************************************************************************)
(* Model of the irregular-to-grid matching code of SEGY_tools.             *)
(*                                                                         *)
(* match_shots_to_grid (G_shot_match.py) is modelled statement by          *)
(* statement: the lexsort of the shot points, the loop over the sorted     *)
(* shots with its boolean mask of consumed grid nodes, and the return.     *)
(* Points are pairs <<x, y>> of integers (the trace-header coordinates     *)
(* and the int32 lattice of F_receivers_regularize.py).  Euclidean         *)
(* distances are kept squared: for integer coordinates sqrt is strictly    *)
(* monotone, so min, argmin and the comparison with the threshold are      *)
(* computed on the squares (see LeqThreshold).                             *)
(***************************************************************************)
EXTENDS Integers, Sequences, FiniteSets, TLC

VARIABLES shot_points,    \* argument: array of shot coordinates
          grid_points,    \* argument: array of grid nodes
          max_distance,   \* argument: distance threshold
          sorted_shots,   \* local: shots in processing order
          shot_to_grid,   \* local: dict  shot tuple -> grid node
          matched_grid,   \* local: boolean mask over grid_points
          matched_shots,  \* local: list of the nodes handed out
          k,              \* position of the for loop in sorted_shots
          pc,             \* "start", "loop", "done" or "raised"
          exc,            \* exception that ended the call, "None" if none
          ret             \* returned tuple, <<>> before the return

\* regularize_coordinates (F_receivers_regularize.py); coordinates and
\* spacings of its arguments are counted in halves (3 stands for 1.5),
\* the int32 lattice it builds in whole units
VARIABLES orig_coords,    \* loaded reference coordinates (set of points)
          row_spacing,    \* argument, in halves
          col_spacing,    \* argument, in halves
          reg_coords,     \* the lattice, row by row
          f_pc,           \* "idle", "start", "done" or "raised"
          f_exc           \* exception that ended the call, "None" if none

\* process_segy_file (H_receivers_match.py)
VARIABLES h_grid_points,    \* grid_points = np.load(grid_file)
          group,            \* (groupX[i], groupY[i]) of every trace
          offset,           \* the integer offset vector
          offset_from_nan,  \* TRUE when it was cast from a NaN centroid
          shifted_group,    \* (shifted_groupX[i], shifted_groupY[i])
          shifted_coords,   \* np.unique of the shifted receivers
          query_indices,    \* indices returned by tree.query
          receiver_to_grid, \* dict  shifted receiver -> grid node
          h_pc,             \* "idle", "start", "shift", "query", "map",
                            \* "done" or "raised"
          h_exc             \* exception that ended the run, "None" if none

\* the scripts that copy SEG-Y files trace by trace (process_segy_file of
\* G_shot_match.py and H_receivers_match.py, shift_coordinates,
\* merge_segy_files, delete_shots_by_receiver_count).  They use the same
\* local names; one of them runs at a time.
VARIABLES segy_files,          \* the input files: samples, format, traces
          batch_size,          \* argument
          batch_start,         \* first trace of the batch being processed
          keep_indices,        \* indices of the traces to keep (0-based)
          new_segy,            \* the output file: created, trace slots
          shot_receiver_count, \* dict  shot -> number of traces
          max_receivers,       \* argument
          file_index,          \* position of `for filename in input_files`
          current_trace,       \* write cursor of merge_segy_files
          total_traces,        \* sum of the trace counts
          xy_min,              \* (x_min, y_min) of shift_coordinates
          s_pc,                \* position of the running script
          s_exc                \* exception that ended it, "None" if none

mvars == <<shot_points, grid_points, max_distance, sorted_shots, shot_to_grid,
           matched_grid, matched_shots, k, pc, exc, ret>>

fvars == <<orig_coords, row_spacing, col_spacing, reg_coords, f_pc, f_exc>>

hvars == <<h_grid_points, group, offset, offset_from_nan, shifted_group,
           shifted_coords, query_indices, receiver_to_grid, h_pc, h_exc>>

svars == <<segy_files, batch_size, batch_start, keep_indices, new_segy,
           shot_receiver_count, max_receivers, file_index, current_trace,
           total_traces, xy_min, s_pc, s_exc>>

vars == <<mvars, fvars, hvars, svars>>

----------------------------------------------------------------------------
(* Bounds of the checked instance *)

MaxX == 2
MaxY == 1
MaxShots == 3
MaxRows == 2
MaxCols == 2
MaxSpacing == 2
MaxDist == 2
MaxPermShots == 2
MaxNegHalf == 2
MaxPosHalf == 4
MaxSpacingHalf == 4
MaxTraces == 3
MaxShotId == 1
MaxBatch == 2
MaxFiles == 2
MaxFileTraces == 2
MaxReceivers == 2

----------------------------------------------------------------------------
(* Helpers *)

Range(s) == {s[i] : i \in DOMAIN s}

\* row order of np.unique(..., axis=0): ascending x, then ascending y
RowLess(a, b) == a[1] < b[1] \/ (a[1] = b[1] /\ a[2] < b[2])

\* np.unique(np.column_stack((sourceX, sourceY)), axis=0): each distinct
\* row once, in ascending row order
RECURSIVE NpUnique(_)
NpUnique(S) ==
    IF S = {} THEN << >>
    ELSE LET least == CHOOSE p \in S : \A q \in S \ {p} : RowLess(p, q)
         IN  <<least>> \o NpUnique(S \ {least})

\* the arrays of at most maxLen unique shots over the coordinates in S
UniqueShotArrays(S, maxLen) ==
    {NpUnique(T) : T \in {U \in SUBSET S : Cardinality(U) <= maxLen}}

\* np.meshgrid(x, y) + column_stack of the ravelled arrays: row by row,
\* the column index varying fastest
MeshGrid(start_x, start_y, rows, cols, row_step, col_step) ==
    [i \in 1..(rows * cols) |->
        << start_x + ((i - 1) % cols) * col_step,
           start_y + ((i - 1) \div cols) * row_step >>]

\* squared Euclidean distance (cdist 'euclidean', squared)
Dist2(p, q) ==
    (p[1] - q[1]) * (p[1] - q[1]) + (p[2] - q[2]) * (p[2] - q[2])

\* sqrt(d2) <= m, on the squares
LeqThreshold_strict(d2, m) == m >= 0 /\ d2 < m * m
LeqThreshold(d2, m) == m >= 0 /\ d2 <= m * m

\* sort key of np.lexsort((-x, -y)): primary -y, secondary -x
KeyLess(a, b) ==
    \/ (0 - a[2]) < (0 - b[2])
    \/ (0 - a[2]) = (0 - b[2]) /\ (0 - a[1]) < (0 - b[1])

RECURSIVE StableSortIdx(_, _)
StableSortIdx(pts, remaining) ==
    IF remaining = {} THEN << >>
    ELSE LET first == CHOOSE i \in remaining :
                        \A j \in remaining \ {i} :
                           \/ KeyLess(pts[i], pts[j])
                           \/ ~KeyLess(pts[j], pts[i]) /\ i < j
         IN  <<first>> \o StableSortIdx(pts, remaining \ {first})

\* mutant: the shots are taken in the order they were passed in
sort_shots_unsorted(pts) == pts

\* mutant: ascending instead of descending keys
sort_shots_ascending(pts) ==
    LET neg == [i \in DOMAIN pts |-> <<0 - pts[i][1], 0 - pts[i][2]>>]
        indices == StableSortIdx(neg, DOMAIN pts)
    IN  [i \in DOMAIN pts |-> pts[indices[i]]]

sort_shots_from_right_bottom_to_left_top(pts) ==
    LET indices == StableSortIdx(pts, DOMAIN pts)
    IN  [i \in DOMAIN pts |-> pts[indices[i]]]

\* np.where(~matched_grid)[0]: ascending indices of the unconsumed nodes
RECURSIVE WhereNot(_, _)
WhereNot(mask, i) ==
    IF i > Len(mask) THEN << >>
    ELSE IF mask[i] THEN WhereNot(mask, i + 1)
         ELSE <<i>> \o WhereNot(mask, i + 1)

\* cdist([shot], grid_points[~matched_grid])[0], squared
Cdist(shot, grid, mask) ==
    LET idx == WhereNot(mask, 1)
    IN  [j \in 1..Len(idx) |-> Dist2(shot, grid[idx[j]])]

\* np.min / np.argmin raise ValueError on a zero-size array
NpRaises(d) == Len(d) = 0

NpMin(d) == CHOOSE v \in Range(d) : \A w \in Range(d) : v <= w

\* mutant: index of the largest entry
NpArgmax(d) ==
    CHOOSE j \in 1..Len(d) :
        /\ \A i \in 1..Len(d) : d[j] >= d[i]
        /\ \A i \in 1..(j - 1) : d[i] # d[j]

\* mutant: last occurrence of the minimum
NpArgmin_last(d) ==
    CHOOSE j \in 1..Len(d) :
        /\ \A i \in 1..Len(d) : d[j] <= d[i]
        /\ \A i \in (j + 1)..Len(d) : d[i] # d[j]

\* first occurrence of the minimum
NpArgmin(d) ==
    CHOOSE j \in 1..Len(d) :
        /\ \A i \in 1..Len(d) : d[j] <= d[i]
        /\ \A i \in 1..(j - 1) : d[i] # d[j]

\* mutant: the length test dropped
IfCondition_nolen(d, m) ==
    IF NpRaises(d) THEN "ValueError"
    ELSE IF LeqThreshold(NpMin(d), m) THEN "True" ELSE "False"

\* mutant: strict comparison with the threshold
IfCondition_strict(d, m) ==
    IF Len(d) > 0
    THEN IF NpRaises(d) THEN "ValueError"
         ELSE IF LeqThreshold_strict(NpMin(d), m) THEN "True" ELSE "False"
    ELSE "False"

\* mutant: the threshold test dropped
IfCondition_nothreshold(d, m) ==
    IF Len(d) > 0 THEN "True" ELSE "False"

\* `len(distances[0]) > 0 and np.min(distances) <= max_distance`
\* (`and` short-circuits: np.min is evaluated only on a non-empty array)
IfCondition(d, m) ==
    IF Len(d) > 0
    THEN IF NpRaises(d) THEN "ValueError"
         ELSE IF LeqThreshold(NpMin(d), m) THEN "True" ELSE "False"
    ELSE "False"

\* mutant: the position among the unconsumed nodes used as global index
GlobalIndex_local(mask, closest_index) == closest_index

\* np.where(~matched_grid)[0][closest_index]
GlobalIndex(mask, closest_index) == WhereNot(mask, 1)[closest_index]

\* mutant: the mask is not updated
MarkMatched_skip(mask, i) == mask

\* matched_grid[global_index] = True
MarkMatched(mask, i) == [mask EXCEPT ![i] = TRUE]

\* mutant: the dict keyed by the node instead of the shot
DictSet_swapped(d, key, v) ==
    [q \in (DOMAIN d) \cup {v} |-> IF q = v THEN key ELSE d[q]]

\* shot_to_grid[shot_tuple] = node
DictSet(d, key, v) ==
    [q \in (DOMAIN d) \cup {key} |-> IF q = key THEN v ELSE d[q]]

----------------------------------------------------------------------------
(* Inputs *)

ShotDomain == (0..MaxX) \X (0..MaxY)

Thresholds == (0 - 1)..MaxDist

ScenarioGrid == MeshGrid(0, 0, 3, 3, 10, 10)
ScenarioShots == {<<1, 1>>, <<9, 9>>, <<21, 21>>}

InitLocals ==
    /\ sorted_shots = << >>
    /\ shot_to_grid = << >>
    /\ matched_grid = << >>
    /\ matched_shots = << >>
    /\ k = 1
    /\ pc = "start"
    /\ exc = "None"
    /\ ret = << >>

InitBounded ==
    /\ shot_points \in UniqueShotArrays(ShotDomain, MaxShots)
    /\ \E rows \in 0..MaxRows, cols \in 0..MaxCols,
          rs \in 1..MaxSpacing, cs \in 1..MaxSpacing :
          grid_points = MeshGrid(0, 0, rows, cols, rs, cs)
    /\ max_distance \in Thresholds

InitScenario ==
    /\ shot_points = NpUnique(ScenarioShots)
    /\ grid_points = ScenarioGrid
    /\ max_distance = 5

\* the other two programs are not running
IdleF ==
    /\ orig_coords = {}
    /\ row_spacing = 2
    /\ col_spacing = 2
    /\ reg_coords = << >>
    /\ f_pc = "idle"
    /\ f_exc = "None"

IdleH ==
    /\ h_grid_points = << >>
    /\ group = << >>
    /\ offset = <<0, 0>>
    /\ offset_from_nan = FALSE
    /\ shifted_group = << >>
    /\ shifted_coords = << >>
    /\ query_indices = << >>
    /\ receiver_to_grid = << >>
    /\ h_pc = "idle"
    /\ h_exc = "None"

\* an output file that was not created
NoFile == [created |-> FALSE, trace |-> << >>]

\* no script is running
IdleS ==
    /\ segy_files = << >>
    /\ batch_size = 1
    /\ batch_start = 0
    /\ keep_indices = << >>
    /\ new_segy = NoFile
    /\ shot_receiver_count = << >>
    /\ max_receivers = 0
    /\ file_index = 1
    /\ current_trace = 0
    /\ total_traces = 0
    /\ xy_min = <<0, 0>>
    /\ s_pc = "idle"
    /\ s_exc = "None"

Init == (InitBounded \/ InitScenario) /\ InitLocals /\ IdleF /\ IdleH /\ IdleS

\* duplicate-free sequences of length n over S
DistinctSeqs(S, n) ==
    {s \in [1..n -> S] : \A i, j \in 1..n : i # j => s[i] # s[j]}

\* match_shots_to_grid called with the unique shots in an arbitrary order
InitAnyOrder ==
    /\ \/ /\ shot_points \in
                UNION {DistinctSeqs(ShotDomain, n) : n \in 0..MaxPermShots}
          /\ grid_points \in
                {MeshGrid(0, 0, rows, cols, sp, sp) :
                    rows \in 0..MaxRows, cols \in 0..MaxCols,
                    sp \in 1..MaxSpacing}
          /\ max_distance \in 0..MaxDist
       \/ /\ shot_points \in
                DistinctSeqs(ScenarioShots, Cardinality(ScenarioShots))
          /\ grid_points = ScenarioGrid
          /\ max_distance = 5
    /\ InitLocals /\ IdleF /\ IdleH /\ IdleS

\* match_shots_to_grid called with at most MaxPermShots unique shots
InitFewShots ==
    /\ shot_points \in UniqueShotArrays(ShotDomain, MaxPermShots)
    /\ \E rows \in 0..MaxRows, cols \in 0..MaxCols,
          rs \in 1..MaxSpacing, cs \in 1..MaxSpacing :
          grid_points = MeshGrid(0, 0, rows, cols, rs, cs)
    /\ max_distance \in Thresholds
    /\ InitLocals /\ IdleF /\ IdleH /\ IdleS

----------------------------------------------------------------------------
(* match_shots_to_grid *)

Inputs == <<shot_points, grid_points, max_distance>>

\* lines 75-80: sort, then initialise the result containers
SortAndInit ==
    /\ pc = "start"
    /\ sorted_shots' = sort_shots_from_right_bottom_to_left_top(shot_points)
    /\ shot_to_grid' = << >>
    /\ matched_grid' = [i \in 1..Len(grid_points) |-> FALSE]
    /\ matched_shots' = << >>
    /\ k' = 1
    /\ pc' = "loop"
    /\ UNCHANGED <<Inputs, exc, ret>>
    /\ UNCHANGED <<fvars, hvars, svars>>

\* mutant: a rejected shot still consumes its nearest node
LoopBody_consume ==
    /\ pc = "loop"
    /\ k <= Len(sorted_shots)
    /\ LET shot == sorted_shots[k]
           distances == Cdist(shot, grid_points, matched_grid)
           cond == IfCondition(distances, max_distance)
       IN  IF cond = "ValueError"
           THEN /\ exc' = "ValueError"
                /\ pc' = "raised"
                /\ UNCHANGED <<shot_to_grid, matched_grid, matched_shots, k>>
           ELSE LET any == Len(distances) > 0
                    global_index ==
                        GlobalIndex(matched_grid, NpArgmin(distances))
                IN  /\ shot_to_grid' =
                          IF cond = "True"
                          THEN DictSet(shot_to_grid, shot,
                                       grid_points[global_index])
                          ELSE shot_to_grid
                    /\ matched_grid' =
                          IF any THEN MarkMatched(matched_grid, global_index)
                          ELSE matched_grid
                    /\ matched_shots' =
                          IF cond = "True"
                          THEN Append(matched_shots, grid_points[global_index])
                          ELSE matched_shots
                    /\ k' = k + 1
                    /\ UNCHANGED <<pc, exc>>
    /\ UNCHANGED <<Inputs, sorted_shots, ret>>
    /\ UNCHANGED <<fvars, hvars, svars>>

\* lines 83-97: one iteration of `for shot in sorted_shots`
LoopBody ==
    /\ pc = "loop"
    /\ k <= Len(sorted_shots)
    /\ LET shot == sorted_shots[k]
           distances == Cdist(shot, grid_points, matched_grid)
           cond == IfCondition(distances, max_distance)
       IN  IF cond = "ValueError"
           THEN /\ exc' = "ValueError"
                /\ pc' = "raised"
                /\ UNCHANGED <<shot_to_grid, matched_grid, matched_shots, k>>
           ELSE IF cond = "True"
           THEN LET closest_index == NpArgmin(distances)
                    global_index == GlobalIndex(matched_grid, closest_index)
                IN  /\ shot_to_grid' =
                          DictSet(shot_to_grid, shot, grid_points[global_index])
                    /\ matched_grid' = MarkMatched(matched_grid, global_index)
                    /\ matched_shots' =
                          Append(matched_shots, grid_points[global_index])
                    /\ k' = k + 1
                    /\ UNCHANGED <<pc, exc>>
           ELSE /\ k' = k + 1
                /\ UNCHANGED <<shot_to_grid, matched_grid, matched_shots,
                               pc, exc>>
    /\ UNCHANGED <<Inputs, sorted_shots, ret>>
    /\ UNCHANGED <<fvars, hvars, svars>>

\* line 99: return shot_to_grid, np.array(matched_shots)
Return ==
    /\ pc = "loop"
    /\ k > Len(sorted_shots)
    /\ ret' = <<shot_to_grid, matched_shots>>
    /\ pc' = "done"
    /\ UNCHANGED <<Inputs, sorted_shots, shot_to_grid, matched_grid,
                   matched_shots, k, exc>>
    /\ UNCHANGED <<fvars, hvars, svars>>

Next == SortAndInit \/ LoopBody \/ Return

Spec == Init /\ [][Next]_vars

SpecAnyOrder == InitAnyOrder /\ [][Next]_vars

SpecFewShots == InitFewShots /\ [][Next]_vars

----------------------------------------------------------------------------
(* regularize_coordinates *)

\* the matcher is not running
IdleM ==
    /\ shot_points = << >>
    /\ grid_points = << >>
    /\ max_distance = 0
    /\ sorted_shots = << >>
    /\ shot_to_grid = << >>
    /\ matched_grid = << >>
    /\ matched_shots = << >>
    /\ k = 1
    /\ pc = "idle"
    /\ exc = "None"
    /\ ret = << >>

\* int(v) and the cast of v to int32, v given in halves: truncation
\* toward zero
IntOfHalves(v2) ==
    IF v2 >= 0 THEN v2 \div 2 ELSE 0 - ((0 - v2) \div 2)

\* mutant: the quotient truncated instead of rounded
RoundHalfEven_trunc(num, den) == num \div den

\* round(num / den) for den > 0: the nearest integer, a tie going to the
\* even neighbour (Python 3 round, np.round)
RoundHalfEven(num, den) ==
    LET n == num \div den
        r == num - n * den
    IN  IF 2 * r < den THEN n
        ELSE IF 2 * r > den THEN n + 1
        ELSE IF n % 2 = 0 THEN n ELSE n + 1

\* np.min / np.max of one column of orig_coords (in halves)
ColMin(S, c) == CHOOSE v \in {p[c] : p \in S} : \A q \in S : v <= q[c]
ColMax(S, c) == CHOOSE v \in {p[c] : p \in S} : \A q \in S : v >= q[c]

\* np.array([start + i * spacing for i in range(n)], dtype=np.int32):
\* start is an int, spacing is given in halves, the cast truncates
Int32Axis(start, spacing2, n) ==
    [i \in 1..n |-> IntOfHalves(2 * start + (i - 1) * spacing2)]

\* mutant: np.meshgrid(..., indexing='ij'), the row index varying fastest
MeshGridXY_ij(x, y) ==
    [i \in 1..(Len(x) * Len(y)) |->
        << x[((i - 1) \div Len(y)) + 1], y[((i - 1) % Len(y)) + 1] >>]

\* X, Y = np.meshgrid(x, y); np.column_stack((X.ravel(), Y.ravel()))
MeshGridXY(x, y) ==
    [i \in 1..(Len(x) * Len(y)) |->
        << x[((i - 1) % Len(x)) + 1], y[((i - 1) \div Len(x)) + 1] >>]

\* reg_coords.astype(np.int32) on the int32 array reg_coords
AsTypeInt32(v) == v

\* not np.all(reg_coords == reg_coords.astype(np.int32))
IntegerCheckFails(reg) ==
    \E i \in DOMAIN reg : \E c \in 1..2 : reg[i][c] # AsTypeInt32(reg[i][c])

\* lines 69-70
GridCols(S, spacing2) ==
    RoundHalfEven(ColMax(S, 1) - ColMin(S, 1), spacing2) + 1

GridRows(S, spacing2) ==
    RoundHalfEven(ColMax(S, 2) - ColMin(S, 2), spacing2) + 1

\* lines 83-84
StartX(S) == IntOfHalves(ColMin(S, 1))
StartY(S) == IntOfHalves(ColMin(S, 2))

\* lines 87-92
RegCoords(S, rs2, cs2) ==
    MeshGridXY(Int32Axis(StartX(S), cs2, GridCols(S, cs2)),
               Int32Axis(StartY(S), rs2, GridRows(S, rs2)))

CoordHalves == (0 - MaxNegHalf)..MaxPosHalf

\* reference sets: every bounding box over CoordHalves occurs
ReferenceSets ==
    {{}} \cup {{p, q} : p \in CoordHalves \X CoordHalves,
                        q \in CoordHalves \X CoordHalves}

InitRegularize ==
    /\ orig_coords \in ReferenceSets
    /\ row_spacing \in 1..MaxSpacingHalf
    /\ col_spacing \in 1..MaxSpacingHalf
    /\ reg_coords = << >>
    /\ f_pc = "start"
    /\ f_exc = "None"
    /\ IdleM /\ IdleH /\ IdleS

\* lines 57-118, one call
Regularize ==
    /\ f_pc = "start"
    /\ IF orig_coords = {}
       THEN \* np.min of a zero-size array
            /\ f_exc' = "ValueError: zero-size array"
            /\ f_pc' = "raised"
            /\ UNCHANGED reg_coords
       ELSE LET reg == RegCoords(orig_coords, row_spacing, col_spacing)
            IN  IF IntegerCheckFails(reg)
                THEN /\ f_exc' = "ValueError: non-integer coordinates"
                     /\ f_pc' = "raised"
                     /\ UNCHANGED reg_coords
                ELSE /\ reg_coords' = reg
                     /\ f_pc' = "done"
                     /\ UNCHANGED f_exc
    /\ UNCHANGED <<orig_coords, row_spacing, col_spacing, mvars, hvars, svars>>

NextRegularize == Regularize

SpecRegularize == InitRegularize /\ [][NextRegularize]_vars

----------------------------------------------------------------------------
(* process_segy_file of H_receivers_match.py, up to the receiver mapping *)

\* sum of one column over a set of points
RECURSIVE SumCol(_, _)
SumCol(S, c) ==
    IF S = {} THEN 0
    ELSE LET p == CHOOSE q \in S : TRUE
         IN  p[c] + SumCol(S \ {p}, c)

\* mutant: truncation of the quotient in place of np.round
RoundOfDifference_floor(sg, ng, so, no) ==
    (sg * no - so * ng) \div (ng * no)

\* np.round(sg / ng - so / no): the nearest integer, a tie going to the
\* even neighbour.  The centroid of a lattice is a multiple of 1/2, so at a
\* tie both means are binary fractions and the float difference is exact.
RoundOfDifference(sg, ng, so, no) ==
    RoundHalfEven(sg * no - so * ng, ng * no)

\* nan.astype(int): 0 or the most negative integer, depending on the
\* platform (the latter stands here as -2^30, below every coordinate)
CastOfNaN == {0, 0 - 2 ^ 30}

\* np.round(grid_center - orig_center).astype(int), lines 88, 124, 130
Offsets(grid, coords) ==
    IF Len(grid) = 0 \/ Len(coords) = 0
    THEN {<<v, v>> : v \in CastOfNaN}
    ELSE LET ng == Len(grid)
             no == Len(coords)
         IN  {<<RoundOfDifference(SumCol(Range(grid), 1), ng,
                                  SumCol(Range(coords), 1), no),
                RoundOfDifference(SumCol(Range(grid), 2), ng,
                                  SumCol(Range(coords), 2), no)>>}

\* mutant: the first node whatever the distance
NearestIndices_first(grid, q) == {1}

\* tree.query(q): the index of a nearest node; cKDTree does not specify
\* which of several equally near nodes it returns
NearestIndices(grid, q) ==
    {i \in DOMAIN grid :
        \A j \in DOMAIN grid : Dist2(q, grid[i]) <= Dist2(q, grid[j])}

\* tree.query(points): the possible index arrays, one nearest node for
\* every point
RECURSIVE TreeQuery(_, _)
TreeQuery(grid, points) ==
    IF points = << >> THEN {<< >>}
    ELSE {<<i>> \o rest : i \in NearestIndices(grid, Head(points)),
                          rest \in TreeQuery(grid, Tail(points))}

\* mutant: only the first pair of the zip enters the dict
ZipDict_first(keys, values) ==
    [q \in {keys[i] : i \in DOMAIN keys \cap {1}} |-> values[1]]

\* {tuple(shifted): tuple(matched) for shifted, matched in zip(...)}
ZipDict(keys, values) ==
    [q \in Range(keys) |-> values[CHOOSE i \in DOMAIN keys : keys[i] = q]]

RecvDomain == (0..MaxX) \X (0..MaxY)

\* GroupX, GroupY of the traces of the file; several traces may carry the
\* same receiver.  The computation up to the mapping depends on the traces
\* only through np.unique, so the traces are taken in receiver order.
TraceHeaders ==
    UNION {{s \in [1..n -> RecvDomain] :
               \A i \in 1..n, j \in 1..n : i < j => ~RowLess(s[j], s[i])} :
           n \in 0..MaxTraces}

InitReceivers ==
    /\ h_grid_points \in
          {MeshGrid(0, 0, rows, cols, rs, cs) :
              rows \in 0..MaxRows, cols \in 0..MaxCols,
              rs \in 1..MaxSpacing, cs \in 1..MaxSpacing}
    /\ group \in TraceHeaders
    /\ offset = <<0, 0>>
    /\ offset_from_nan = FALSE
    /\ shifted_group = << >>
    /\ shifted_coords = << >>
    /\ query_indices = << >>
    /\ receiver_to_grid = << >>
    /\ h_pc = "start"
    /\ h_exc = "None"
    /\ IdleM /\ IdleF /\ IdleS

HInputs == <<h_grid_points, group>>

\* lines 87-130: centroids of the grid and of the unique receivers, offset
ComputeOffset ==
    /\ h_pc = "start"
    /\ LET coords == NpUnique(Range(group))
       IN  /\ offset' \in Offsets(h_grid_points, coords)
           /\ offset_from_nan' = (Len(h_grid_points) = 0 \/ Len(coords) = 0)
    /\ h_pc' = "shift"
    /\ UNCHANGED <<HInputs, shifted_group, shifted_coords, query_indices,
                   receiver_to_grid, h_exc, mvars, fvars, svars>>

\* lines 134-139: shift the receivers of all traces, take the unique ones
ShiftCoordinates ==
    /\ h_pc = "shift"
    /\ shifted_group' = [i \in DOMAIN group |->
                            <<group[i][1] + offset[1], group[i][2] + offset[2]>>]
    /\ shifted_coords' = NpUnique(Range(shifted_group'))
    /\ h_pc' = "query"
    /\ UNCHANGED <<HInputs, offset, offset_from_nan, query_indices,
                   receiver_to_grid, h_exc, mvars, fvars, svars>>

\* mutant: the maximum of an empty distance array taken without error
QueryTree_nomax ==
    /\ h_pc = "query"
    /\ IF Len(h_grid_points) = 0
       THEN /\ h_exc' = "ValueError"
            /\ h_pc' = "raised"
            /\ UNCHANGED query_indices
       ELSE /\ query_indices' \in TreeQuery(h_grid_points, shifted_coords)
            /\ h_pc' = "map"
            /\ UNCHANGED h_exc
    /\ UNCHANGED <<HInputs, offset, offset_from_nan, shifted_group,
                   shifted_coords, receiver_to_grid, mvars, fvars, svars>>

\* lines 144-149: cKDTree over all grid nodes, nearest node of every
\* shifted receiver, np.max / np.mean of the distances
QueryTree ==
    /\ h_pc = "query"
    /\ IF Len(shifted_coords) = 0
       THEN \* np.max of a zero-size array
            /\ h_exc' = "ValueError"
            /\ h_pc' = "raised"
            /\ UNCHANGED query_indices
       ELSE IF Len(h_grid_points) = 0
       THEN \* an empty tree: either the constructor rejects it, or every
            \* query reports the missing neighbour as index n
            \/ /\ h_exc' = "ValueError"
               /\ h_pc' = "raised"
               /\ UNCHANGED query_indices
            \/ /\ query_indices' = [i \in DOMAIN shifted_coords |-> 1]
               /\ h_pc' = "map"
               /\ UNCHANGED h_exc
       ELSE /\ query_indices' \in TreeQuery(h_grid_points, shifted_coords)
            /\ h_pc' = "map"
            /\ UNCHANGED h_exc
    /\ UNCHANGED <<HInputs, offset, offset_from_nan, shifted_group,
                   shifted_coords, receiver_to_grid, mvars, fvars, svars>>

\* lines 154-158: matched_coords = grid_points[indices], receiver_to_grid
BuildMapping ==
    /\ h_pc = "map"
    /\ IF \E i \in DOMAIN query_indices :
             query_indices[i] \notin DOMAIN h_grid_points
       THEN /\ h_exc' = "IndexError"
            /\ h_pc' = "raised"
            /\ UNCHANGED receiver_to_grid
       ELSE /\ receiver_to_grid' =
                  ZipDict(shifted_coords,
                          [i \in DOMAIN query_indices |->
                              h_grid_points[query_indices[i]]])
            /\ h_pc' = "mapped"
            /\ UNCHANGED h_exc
    /\ UNCHANGED <<HInputs, offset, offset_from_nan, shifted_group,
                   shifted_coords, query_indices, mvars, fvars, svars>>

NextReceivers ==
    ComputeOffset \/ ShiftCoordinates \/ QueryTree \/ BuildMapping

SpecReceivers == InitReceivers /\ [][NextReceivers]_vars

----------------------------------------------------------------------------
(* Files and traces of the scripts *)

\* a trace: its SourceX/SourceY and GroupX/GroupY header fields and its
\* samples, which stand here as <<file, index>> of the trace they come from
Trace(source, receiver, id) ==
    [source |-> source, group |-> receiver, data |-> id]

\* a trace slot of a created file that has not been written
Blank == Trace(<<0, 0>>, <<0, 0>>, <<0, 0>>)

\* segyio.create(new_filename, spec) with spec.tracecount = n
Create(n) == [created |-> TRUE, trace |-> [i \in 1..n |-> Blank]]

Min(a, b) == IF a <= b THEN a ELSE b

\* the traces of new_segy after the slots first..last-1 (0-based) have been
\* written with written[i]
WriteSlots(file, first, last, written) ==
    [file EXCEPT !.trace =
        [i \in DOMAIN file.trace |->
            IF first <= i - 1 /\ i - 1 < last THEN written[i - 1]
            ELSE file.trace[i]]]

\* the source positions used by the scripts' inputs
ScriptShots ==
    {p \in (0..MaxShotId) \X (0..MaxShotId) : p[1] + p[2] <= MaxShotId}

\* np.unique(rows, axis=0) on an array with repeated rows: sort the rows,
\* then keep every row that differs from its predecessor
RECURSIVE InsertRow(_, _)
InsertRow(p, s) ==
    IF s = << >> THEN <<p>>
    ELSE IF RowLess(Head(s), p) THEN <<Head(s)>> \o InsertRow(p, Tail(s))
         ELSE <<p>> \o s

RECURSIVE SortRows(_)
SortRows(s) ==
    IF s = << >> THEN << >> ELSE InsertRow(Head(s), SortRows(Tail(s)))

RECURSIVE DropRepeats(_)
DropRepeats(s) ==
    IF Len(s) <= 1 THEN s
    ELSE IF s[1] = s[2] THEN DropRepeats(Tail(s))
         ELSE <<s[1]>> \o DropRepeats(Tail(s))

\* mutant: sorted, repeated rows kept
NpUniqueRows_sorted(s) == SortRows(s)

NpUniqueRows(s) == DropRepeats(SortRows(s))

----------------------------------------------------------------------------
(* process_segy_file of G_shot_match.py *)

\* the single input file of a script
segyfile == segy_files[1]
num_traces == Len(segyfile.trace)

\* lines 105-133: the grid, the threshold and the trace headers are read
InitShotScript ==
    /\ grid_points \in
          {MeshGrid(0, 0, 1, cols, 1, 1) : cols \in 0..MaxCols}
    /\ max_distance \in {0, MaxDist}
    /\ \E n \in 0..MaxTraces : \E src \in [1..n -> ScriptShots] :
          segy_files =
             <<[samples |-> 1, format |-> 1,
                trace |-> [i \in 1..n |-> Trace(src[i], <<i, i>>, <<1, i>>)]]>>
    /\ batch_size \in 1..MaxBatch
    /\ batch_start = 0
    /\ keep_indices = << >>
    /\ new_segy = NoFile
    /\ shot_receiver_count = << >>
    /\ max_receivers = 0
    /\ file_index = 1
    /\ current_trace = 0
    /\ total_traces = 0
    /\ xy_min = <<0, 0>>
    /\ s_pc = "start"
    /\ s_exc = "None"
    /\ shot_points = << >>
    /\ sorted_shots = << >>
    /\ shot_to_grid = << >>
    /\ matched_grid = << >>
    /\ matched_shots = << >>
    /\ k = 1
    /\ pc = "idle"
    /\ exc = "None"
    /\ ret = << >>
    /\ IdleF /\ IdleH

\* lines 136-141: np.unique of the shot positions, then the call of
\* match_shots_to_grid (which runs through SortAndInit, LoopBody, Return)
UniqueShots ==
    /\ s_pc = "start"
    /\ shot_points' =
          NpUniqueRows([i \in 1..num_traces |-> segyfile.trace[i].source])
    /\ pc' = "start"
    /\ s_pc' = "match"
    /\ UNCHANGED <<grid_points, max_distance, sorted_shots, shot_to_grid,
                   matched_grid, matched_shots, k, exc, ret>>
    /\ UNCHANGED <<segy_files, batch_size, batch_start, keep_indices,
                   new_segy, shot_receiver_count, max_receivers, file_index,
                   current_trace, total_traces, xy_min, s_exc>>
    /\ UNCHANGED <<fvars, hvars>>

\* `for i in range(num_traces): if ...: keep_indices.append(i)`: the
\* 0-based indices, from i - 1 on, of the traces whose entry in mask is TRUE
RECURSIVE IndicesWhere(_, _)
IndicesWhere(mask, i) ==
    IF i > Len(mask) THEN << >>
    ELSE IF mask[i] THEN <<i - 1>> \o IndicesWhere(mask, i + 1)
         ELSE IndicesWhere(mask, i + 1)

\* mutant: the kept traces in reverse order
KeepMatched_reversed(dict) ==
    LET kept == IndicesWhere([i \in 1..num_traces |->
                                 segyfile.trace[i].source \in DOMAIN dict], 1)
    IN  [i \in DOMAIN kept |-> kept[Len(kept) + 1 - i]]

\* lines 148-152: keep_indices, the traces whose shot is a key of the dict
KeepMatched(dict) ==
    IndicesWhere([i \in 1..num_traces |->
                     segyfile.trace[i].source \in DOMAIN dict], 1)

\* lines 141-166: after the call returns, plot_match_result (which indexes
\* matched_shots[:, 0], an IndexError on the empty 1-d array of a run
\* without any match), keep_indices, spec.tracecount, segyio.create
FilterTraces ==
    /\ s_pc = "match"
    /\ pc = "done"
    /\ IF Len(ret[2]) = 0
       THEN /\ s_exc' = "IndexError"
            /\ s_pc' = "raised"
            /\ UNCHANGED <<keep_indices, new_segy>>
       ELSE /\ keep_indices' = KeepMatched(ret[1])
            /\ new_segy' = Create(Len(keep_indices'))
            /\ s_pc' = "write"
            /\ UNCHANGED s_exc
    /\ UNCHANGED <<segy_files, batch_size, batch_start, shot_receiver_count,
                   max_receivers, file_index, current_trace, total_traces,
                   xy_min>>
    /\ UNCHANGED <<mvars, fvars, hvars>>

\* lines 169-200: one batch of the write loop
WriteMatched ==
    /\ s_pc = "write"
    /\ batch_start < Len(keep_indices)
    /\ LET batch_end == Min(batch_start + batch_size, Len(keep_indices))
           written ==
               [trace_index \in batch_start..(batch_end - 1) |->
                   LET orig ==
                         segyfile.trace[keep_indices[trace_index + 1] + 1]
                   IN  Trace(ret[1][orig.source], orig.group, orig.data)]
       IN  new_segy' = WriteSlots(new_segy, batch_start, batch_end, written)
    /\ batch_start' = batch_start + batch_size
    /\ UNCHANGED <<segy_files, batch_size, keep_indices, shot_receiver_count,
                   max_receivers, file_index, current_trace, total_traces,
                   xy_min, s_pc, s_exc>>
    /\ UNCHANGED <<mvars, fvars, hvars>>

\* the write loop is exhausted, the files are closed
FinishMatched ==
    /\ s_pc = "write"
    /\ batch_start >= Len(keep_indices)
    /\ s_pc' = "done"
    /\ UNCHANGED <<segy_files, batch_size, batch_start, keep_indices,
                   new_segy, shot_receiver_count, max_receivers, file_index,
                   current_trace, total_traces, xy_min, s_exc>>
    /\ UNCHANGED <<mvars, fvars, hvars>>

NextShotScript ==
    \/ UniqueShots \/ SortAndInit \/ LoopBody \/ Return
    \/ FilterTraces \/ WriteMatched \/ FinishMatched

SpecShotScript == InitShotScript /\ [][NextShotScript]_vars

----------------------------------------------------------------------------
(* Derived notions used by the properties *)

Nodes == Range(grid_points)

\* shots the loop has already gone through / has still to go through
Processed == {sorted_shots[i] : i \in 1..(k - 1)}
Pending == {sorted_shots[i] : i \in k..Len(sorted_shots)}

\* grid nodes not consumed so far
Unconsumed == {grid_points[i] : i \in {j \in DOMAIN matched_grid :
                                          ~matched_grid[j]}}
Consumed == {grid_points[i] : i \in {j \in DOMAIN matched_grid :
                                        matched_grid[j]}}

\* input shots absent from the assignment
UnmatchedShots == Range(shot_points) \ DOMAIN shot_to_grid

----------------------------------------------------------------------------
(* Properties of match_shots_to_grid *)

\* a loop iteration that leaves its shot out of the assignment
UnmatchedStep ==
    /\ pc = "loop" /\ pc' = "loop"
    /\ k <= Len(sorted_shots)
    /\ k' = k + 1
    /\ sorted_shots[k] \notin DOMAIN shot_to_grid'

\* a loop iteration that puts its shot into the assignment
MatchedStep ==
    /\ pc = "loop" /\ pc' = "loop"
    /\ k <= Len(sorted_shots)
    /\ k' = k + 1
    /\ sorted_shots[k] \in DOMAIN shot_to_grid'

\* C1: in every state of the call (after every iteration and in the
\* returned dict) no grid node is the target of two distinct shots.
C1_Injective ==
    /\ \A p, q \in DOMAIN shot_to_grid :
          p # q => shot_to_grid[p] # shot_to_grid[q]
    /\ pc = "done" =>
          \A p, q \in DOMAIN ret[1] : p # q => ret[1][p] # ret[1][q]

C1_Witness ==
    /\ pc = "loop"
    /\ Cardinality(DOMAIN shot_to_grid) >= 2
    /\ Pending # {}
    /\ Unconsumed # {}

\* C2: every (shot, node) pair of the assignment is at Euclidean distance
\* at most max_distance (squared distance at most max_distance squared,
\* with a non-negative max_distance).
C2_WithinMaxDistance ==
    \A p \in DOMAIN shot_to_grid :
        /\ max_distance >= 0
        /\ Dist2(p, shot_to_grid[p]) <= max_distance * max_distance

C2_Witness ==
    /\ pc = "done"
    /\ max_distance > 0
    /\ \E p \in DOMAIN ret[1] :
          Dist2(p, ret[1][p]) = max_distance * max_distance
    /\ \E p \in UnmatchedShots : Nodes # {}

\* C3: a shot is left out of the assignment only if, at its turn, no
\* unconsumed node remained or every unconsumed node was farther away
\* than max_distance.
C3_UnmatchedOnlyIfNoneInRange ==
    [][UnmatchedStep =>
          \/ Unconsumed = {}
          \/ \A n \in Unconsumed :
                \/ max_distance < 0
                \/ Dist2(sorted_shots[k], n) > max_distance * max_distance
      ]_vars

C3_Witness ==
    /\ pc = "done"
    /\ max_distance > 0
    /\ \E p \in UnmatchedShots :
          /\ Unconsumed # {}
          /\ \E n \in Consumed :
                Dist2(p, n) <= max_distance * max_distance

\* C4: the shots are processed in descending Y order and, for equal Y, in
\* descending X order: whatever has been processed (and so may have
\* claimed a node) comes before everything still pending, and the
\* processing order is a rearrangement of the input.
Before(p, q) == p[2] > q[2] \/ (p[2] = q[2] /\ p[1] > q[1])

C4_DescendingYThenX ==
    pc # "start" =>
        /\ Len(sorted_shots) = Len(shot_points)
        /\ Range(sorted_shots) = Range(shot_points)
        /\ \A i, j \in DOMAIN sorted_shots :
              i < j => Before(sorted_shots[i], sorted_shots[j])
        /\ \A p \in Processed : \A q \in Pending : Before(p, q)
        /\ DOMAIN shot_to_grid \subseteq Processed

C4_Witness ==
    /\ pc = "loop"
    /\ sorted_shots # shot_points
    /\ DOMAIN shot_to_grid # {}
    /\ \E p \in Processed : \E q \in Pending : p[2] = q[2] /\ p[1] > q[1]
    /\ \E p \in Processed : \E q \in Pending : p[2] > q[2] /\ p[1] < q[1]

\* C5: a matched shot receives a nearest one of the nodes unconsumed at
\* that moment, the node is consumed by the step, and a consumed node
\* stays consumed (so it is never handed out again).
C5_NearestUnconsumedThenGone ==
    [][/\ MatchedStep =>
             LET shot == sorted_shots[k]
                 node == shot_to_grid'[shot]
             IN  /\ node \in Unconsumed
                 /\ \A n \in Unconsumed : Dist2(shot, node) <= Dist2(shot, n)
                 /\ node \notin Unconsumed'
                 /\ Consumed' = Consumed \cup {node}
       /\ Consumed \subseteq Consumed'
      ]_vars

C5_Witness ==
    /\ pc = "done"
    /\ \E p \in DOMAIN shot_to_grid : \E n \in Consumed :
          Dist2(p, n) < Dist2(p, shot_to_grid[p])

\* C6: an iteration that leaves its shot unmatched changes neither the
\* consumed nodes nor the assignment nor the list of handed-out nodes,
\* and the shot is never pending again.
C6_UnmatchedStepFrame ==
    [][/\ UnmatchedStep =>
             /\ matched_grid' = matched_grid
             /\ shot_to_grid' = shot_to_grid
             /\ matched_shots' = matched_shots
             /\ sorted_shots[k] \in Processed'
       /\ \A p \in Processed : p \in Processed' /\ p \notin Pending'
      ]_vars

C6_Witness ==
    /\ pc = "loop"
    /\ Pending # {}
    /\ Unconsumed # {}
    /\ DOMAIN shot_to_grid # {}
    /\ \E p \in Processed : p \notin DOMAIN shot_to_grid

\* C7 (as stated): the second returned value is the set of unmatched
\* points, disjoint from the keys and completing them to the input.
C7_ReturnsUnmatchedSet ==
    pc = "done" =>
        /\ Range(ret[2]) \cap DOMAIN ret[1] = {}
        /\ Range(ret[2]) \cup DOMAIN ret[1] = Range(shot_points)

\* C7 (amended): the call returns the assignment and the list of the
\* nodes handed out, no set of unmatched points; every key is an input
\* shot, every input shot has been processed, and the second value holds
\* exactly the nodes of the assignment, one per key.
C7_ReturnsAssignmentAndNodes ==
    pc = "done" =>
        /\ Len(ret) = 2
        /\ ret[1] = shot_to_grid
        /\ DOMAIN ret[1] \subseteq Range(shot_points)
        /\ Processed = Range(shot_points)
        /\ Range(ret[2]) = {ret[1][p] : p \in DOMAIN ret[1]}
        /\ Len(ret[2]) = Cardinality(DOMAIN ret[1])

C7_Witness ==
    /\ pc = "done"
    /\ DOMAIN ret[1] # {}
    /\ UnmatchedShots # {}
    /\ Range(ret[2]) \cap Range(shot_points) = {}

\* C8 (as stated): in the 3x3 scenario (1,1) and (21,21) are matched and
\* (9,9) is left unmatched.
InScenario ==
    /\ grid_points = ScenarioGrid
    /\ Range(shot_points) = ScenarioShots
    /\ max_distance = 5

C8_ScenarioTwoMatched ==
    (InScenario /\ pc = "done") =>
        /\ DOMAIN ret[1] = {<<1, 1>>, <<21, 21>>}
        /\ ret[1][<<1, 1>>] = <<0, 0>>
        /\ ret[1][<<21, 21>>] = <<20, 20>>
        /\ UnmatchedShots = {<<9, 9>>}

\* C8 (amended): in the 3x3 scenario all three shots are matched:
\* (21,21)->(20,20), (9,9)->(10,10), (1,1)->(0,0), in that order.
C8_ScenarioAllMatched ==
    (InScenario /\ pc = "done") =>
        /\ DOMAIN ret[1] = ScenarioShots
        /\ ret[1][<<1, 1>>] = <<0, 0>>
        /\ ret[1][<<9, 9>>] = <<10, 10>>
        /\ ret[1][<<21, 21>>] = <<20, 20>>
        /\ ret[2] = << <<20, 20>>, <<10, 10>>, <<0, 0>> >>
        /\ UnmatchedShots = {}

C8_Witness ==
    /\ InScenario
    /\ pc = "done"
    /\ shot_points[1] = <<1, 1>>

C10_DegenerateSizes ==
    /\ [](/\ pc # "raised"
          /\ exc = "None"
          /\ (pc = "done" /\ shot_points = << >>) =>
                /\ ret = << << >>, << >> >>
                /\ UnmatchedShots = {})
    /\ [][(pc = "loop" /\ k <= Len(sorted_shots) /\ Unconsumed = {}) =>
             /\ UnmatchedStep
             /\ exc' = "None"
             /\ UNCHANGED <<shot_to_grid, matched_grid, matched_shots>>
         ]_vars

C10_Witness ==
    /\ pc = "done"
    /\ Nodes # {}
    /\ Unconsumed = {}
    /\ \E p \in UnmatchedShots : \E n \in Nodes :
          Dist2(p, n) <= max_distance * max_distance

\* C11: the returned assignment and node list are a function of the SET
\* of shots, the grid sequence and max_distance: whatever order the shots
\* are passed in, the call returns what the greedy rule gives when the
\* shots are taken from the set by descending Y, then descending X.
FirstOf(S) == CHOOSE p \in S : \A q \in S \ {p} : Before(p, q)

\* lowest-index nearest node among the free indices, 0 if none in range
BestFree(p, grid, free, maxd) ==
    LET ok == {i \in free : maxd >= 0 /\ Dist2(p, grid[i]) <= maxd * maxd}
    IN  IF ok = {} THEN 0
        ELSE CHOOSE i \in ok :
                \A j \in ok : \/ Dist2(p, grid[i]) < Dist2(p, grid[j])
                              \/ Dist2(p, grid[i]) = Dist2(p, grid[j]) /\ i <= j

RECURSIVE GreedyOnSet(_, _, _, _, _, _)
GreedyOnSet(S, grid, maxd, free, dict, list) ==
    IF S = {} THEN <<dict, list>>
    ELSE LET p == FirstOf(S)
             i == BestFree(p, grid, free, maxd)
         IN  IF i = 0
             THEN GreedyOnSet(S \ {p}, grid, maxd, free, dict, list)
             ELSE GreedyOnSet(S \ {p}, grid, maxd, free \ {i},
                              [q \in DOMAIN dict \cup {p} |->
                                  IF q = p THEN grid[i] ELSE dict[q]],
                              Append(list, grid[i]))

C11_FunctionOfTheShotSet ==
    pc = "done" =>
        ret = GreedyOnSet(Range(shot_points), grid_points, max_distance,
                          DOMAIN grid_points, << >>, << >>)

C11_Witness ==
    /\ pc = "done"
    /\ shot_points # sorted_shots
    /\ shot_points # NpUnique(Range(shot_points))
    /\ DOMAIN ret[1] # {}
    /\ \E p \in UnmatchedShots : \E q \in DOMAIN ret[1] :
          Dist2(p, ret[1][q]) <= max_distance * max_distance

\* C12: the greedy matcher is not optimal.  What holds of every run: the
\* number of matched shots never exceeds the size of a largest injective
\* assignment within max_distance, and no unmatched shot is left with an
\* unconsumed node in range.  The witness is a run that falls short: an
\* earlier shot has taken the node nearer to a later shot, which stays
\* unmatched although all shots could have been assigned.
InRange(p, n) ==
    max_distance >= 0 /\ Dist2(p, n) <= max_distance * max_distance

SetMax(T) == CHOOSE v \in T : \A w \in T : v >= w

\* size of a largest injective assignment of shots in S to nodes in free
RECURSIVE MaxMatching(_, _)
MaxMatching(S, free) ==
    IF S = {} THEN 0
    ELSE LET p == CHOOSE q \in S : TRUE
             rest == S \ {p}
         IN  SetMax({MaxMatching(rest, free)} \cup
                    {1 + MaxMatching(rest, free \ {n}) :
                        n \in {m \in free : InRange(p, m)}})

C12_GreedyNotBeyondOptimum ==
    pc = "done" =>
        /\ Cardinality(DOMAIN ret[1]) <=
              MaxMatching(Range(shot_points), Nodes)
        /\ \A p \in UnmatchedShots : \A n \in Unconsumed : ~InRange(p, n)

C12_Witness ==
    /\ pc = "done"
    /\ MaxMatching(Range(shot_points), Nodes) = Len(shot_points)
    /\ Cardinality(DOMAIN ret[1]) < Len(shot_points)
    /\ \E a \in DOMAIN ret[1] : \E b \in UnmatchedShots :
          /\ Before(a, b)
          /\ InRange(b, ret[1][a])
          /\ Dist2(b, ret[1][a]) < Dist2(a, ret[1][a])

\* index of the node consumed by the current step
ConsumedIndex ==
    CHOOSE i \in DOMAIN matched_grid : ~matched_grid[i] /\ matched_grid'[i]

\* C29: when a shot is matched and several unconsumed nodes are at the
\* minimal distance from it, the node assigned is the one of lowest index
\* in grid_points; on a synthesized grid that is the one of lowest row
\* (y), then of lowest column (x).
C29_FirstOfTheNearest ==
    [][MatchedStep =>
          LET shot == sorted_shots[k]
              i == ConsumedIndex
          IN  /\ shot_to_grid'[shot] = grid_points[i]
              /\ \A j \in DOMAIN matched_grid :
                    (~matched_grid[j] /\
                     Dist2(shot, grid_points[j]) = Dist2(shot, grid_points[i]))
                       => /\ i <= j
                          /\ \/ grid_points[i][2] < grid_points[j][2]
                             \/ /\ grid_points[i][2] = grid_points[j][2]
                                /\ grid_points[i][1] <= grid_points[j][1]
      ]_vars

\* a shot was matched while another node, still unconsumed at the end,
\* was exactly as near
C29_Witness ==
    /\ pc = "done"
    /\ \E p \in DOMAIN shot_to_grid : \E n \in Unconsumed :
          /\ n # shot_to_grid[p]
          /\ Dist2(p, n) = Dist2(p, shot_to_grid[p])

\* the nodes of the matched shots, in processing order
RECURSIVE NodesInOrder(_, _)
NodesInOrder(shots, dict) ==
    IF shots = << >> THEN << >>
    ELSE IF Head(shots) \in DOMAIN dict
         THEN <<dict[Head(shots)]>> \o NodesInOrder(Tail(shots), dict)
         ELSE NodesInOrder(Tail(shots), dict)

\* C30: the second returned value lists the nodes of the assignment, one
\* per matched shot in processing order; its length is the number of keys
\* and the number of consumed nodes, and no node occurs twice in it.
C30_SecondValueListsTheNodes ==
    pc = "done" =>
        /\ ret[2] = NodesInOrder(sorted_shots, ret[1])
        /\ Len(ret[2]) = Cardinality(DOMAIN ret[1])
        /\ Len(ret[2]) = Cardinality(Consumed)
        /\ \A i, j \in DOMAIN ret[2] : i # j => ret[2][i] # ret[2][j]

\* two shots matched, the first node of the list belonging to the shot
\* that comes second in the input array
C30_Witness ==
    /\ pc = "done"
    /\ Len(ret[2]) = 2
    /\ Len(shot_points) = 2
    /\ ret[2][1] = ret[1][shot_points[2]]
    /\ ret[2][2] = ret[1][shot_points[1]]

----------------------------------------------------------------------------
(* Properties of regularize_coordinates *)

\* bounding box of the reference set, in halves
RefXMin == ColMin(orig_coords, 1)
RefXMax == ColMax(orig_coords, 1)
RefYMin == ColMin(orig_coords, 2)
RefYMax == ColMax(orig_coords, 2)

\* bounding box of the returned lattice, in whole units
GridMin(c) ==
    CHOOSE v \in {p[c] : p \in Range(reg_coords)} :
        \A q \in Range(reg_coords) : v <= q[c]
GridMax(c) ==
    CHOOSE v \in {p[c] : p \in Range(reg_coords)} :
        \A q \in Range(reg_coords) : v >= q[c]

Abs(v) == IF v >= 0 THEN v ELSE 0 - v

IntegerSpacings == row_spacing % 2 = 0 /\ col_spacing % 2 = 0
IntegerReference == \A p \in orig_coords : p[1] % 2 = 0 /\ p[2] % 2 = 0

\* n is an integer nearest to num / den
NearestInteger(n, num, den) == 2 * Abs(n * den - num) <= den

\* C13: for a non-empty reference set and integer spacings the call
\* returns rows x cols integer nodes, rows - 1 and cols - 1 being the
\* extents divided by the spacings and rounded to the nearest integer,
\* and node (r, c) is the first node moved by c column spacings and r row
\* spacings, the nodes stored row by row.
C13_LatticeLayout ==
    /\ (f_pc = "raised" /\ IntegerSpacings) => orig_coords = {}
    /\ (f_pc = "done" /\ IntegerSpacings) =>
          \E rows, cols \in 1..Len(reg_coords) :
             /\ NearestInteger(cols - 1, RefXMax - RefXMin, col_spacing)
             /\ NearestInteger(rows - 1, RefYMax - RefYMin, row_spacing)
             /\ Len(reg_coords) = rows * cols
             /\ \A r \in 0..(rows - 1) : \A c \in 0..(cols - 1) :
                   /\ reg_coords[r * cols + c + 1] =
                         << reg_coords[1][1] + c * (col_spacing \div 2),
                            reg_coords[1][2] + r * (row_spacing \div 2) >>
                   /\ reg_coords[r * cols + c + 1][1] \in Int
                   /\ reg_coords[r * cols + c + 1][2] \in Int

C13_Witness ==
    /\ f_pc = "done"
    /\ IntegerSpacings
    /\ row_spacing # col_spacing
    /\ Len(reg_coords) = 6
    /\ reg_coords[2][1] > reg_coords[1][1]
    /\ reg_coords[4][2] > reg_coords[1][2]
    /\ ~IntegerReference

\* C14 (as stated): the first node of the lattice is
\* (floor(xmin), floor(ymin)), never greater than the true minimum.
C14_AnchorIsFloor ==
    f_pc = "done" =>
        /\ reg_coords[1] = << RefXMin \div 2, RefYMin \div 2 >>
        /\ 2 * reg_coords[1][1] <= RefXMin
        /\ 2 * reg_coords[1][2] <= RefYMin

\* C15 (as stated): the bounding box of the lattice contains the bounding
\* box of the reference set.
C15_GridBoxContainsReference ==
    f_pc = "done" =>
        /\ 2 * GridMin(1) <= RefXMin /\ 2 * GridMax(1) >= RefXMax
        /\ 2 * GridMin(2) <= RefYMin /\ 2 * GridMax(2) >= RefYMax

\* C15 (amended): the lattice box starts at the reference minimum
\* truncated toward zero (less than 1 away, equal for an integer minimum)
\* and its width and height are the reference extents rounded to a
\* multiple of the spacing: within half a spacing for integer spacings,
\* within half a spacing plus 1 otherwise.  It need not contain the
\* reference box.
C15_GridBoxTracksReference ==
    f_pc = "done" =>
        /\ Abs(2 * GridMin(1) - RefXMin) < 2
        /\ Abs(2 * GridMin(2) - RefYMin) < 2
        /\ RefXMin % 2 = 0 => 2 * GridMin(1) = RefXMin
        /\ RefYMin % 2 = 0 => 2 * GridMin(2) = RefYMin
        /\ 2 * Abs(2 * (GridMax(1) - GridMin(1)) - (RefXMax - RefXMin))
              <= col_spacing + (IF col_spacing % 2 = 0 THEN 0 ELSE 4)
        /\ 2 * Abs(2 * (GridMax(2) - GridMin(2)) - (RefYMax - RefYMin))
              <= row_spacing + (IF row_spacing % 2 = 0 THEN 0 ELSE 4)

C15_Witness ==
    /\ f_pc = "done"
    /\ IntegerSpacings
    /\ IntegerReference
    /\ RefXMin >= 0 /\ RefYMin >= 0
    /\ Len(reg_coords) > 1
    /\ 2 * GridMax(1) < RefXMax
    /\ 2 * GridMax(2) = RefYMax

\* C16 (as stated): without its last column the lattice ends strictly left
\* of the reference maximum X, without its last row strictly below the
\* reference maximum Y.
C16_TightFit ==
    f_pc = "done" =>
        /\ \A p \in Range(reg_coords) :
              p[1] # GridMax(1) => 2 * p[1] < RefXMax
        /\ \A p \in Range(reg_coords) :
              p[2] # GridMax(2) => 2 * p[2] < RefYMax

\* C16 restricted to the inputs on which int() is floor and no cast
\* truncates (used to locate the failures of C16_TightFit)
C16_TightFitOnIntegers ==
    (/\ f_pc = "done"
     /\ IntegerSpacings
     /\ RefXMin >= 0 \/ RefXMin % 2 = 0
     /\ RefYMin >= 0 \/ RefYMin % 2 = 0) => C16_TightFit

\* C17 (as stated): when a lattice coordinate start + i * spacing is not
\* an integer the call fails instead of returning a lattice.
C17_NonIntegerGridRejected ==
    (/\ orig_coords # {}
     /\ \/ \E i \in 0..(GridCols(orig_coords, col_spacing) - 1) :
              (i * col_spacing) % 2 # 0
        \/ \E i \in 0..(GridRows(orig_coords, row_spacing) - 1) :
              (i * row_spacing) % 2 # 0)
    => f_pc # "done"

----------------------------------------------------------------------------
(* Properties of the receiver matching of H_receivers_match.py *)

\* C18: once the mapping is built, every shifted receiver of every trace
\* is a key of receiver_to_grid, its value is a node of the complete grid
\* and no node of the grid is strictly closer to it, whatever the distance;
\* the run fails only when the grid or the receiver set is empty.
C18_TotalNearestMapping ==
    /\ h_pc = "mapped" =>
          /\ \A i \in DOMAIN group :
                <<group[i][1] + offset[1], group[i][2] + offset[2]>>
                   \in DOMAIN receiver_to_grid
          /\ \A q \in DOMAIN receiver_to_grid :
                /\ receiver_to_grid[q] \in Range(h_grid_points)
                /\ \A g \in Range(h_grid_points) :
                      Dist2(q, receiver_to_grid[q]) <= Dist2(q, g)
    /\ h_pc = "raised" => (Len(h_grid_points) = 0 \/ Len(group) = 0)

\* two shifted receivers share one node, one of them farther than one unit
C18_Witness ==
    /\ h_pc = "mapped"
    /\ \E p, q \in DOMAIN receiver_to_grid :
          /\ p # q
          /\ receiver_to_grid[p] = receiver_to_grid[q]
          /\ Dist2(p, receiver_to_grid[p]) > 1

\* twice the centroid difference of one column, over the common denominator
CentroidGap(grid, coords, c) ==
    SumCol(Range(grid), c) * Len(coords) - SumCol(Range(coords), c) * Len(grid)

\* C19: for a non-empty grid and a non-empty receiver set the offset is,
\* in each component, an integer nearest to the grid centroid minus the
\* centroid of the unique receivers, and after the shift the centroid of
\* the unique shifted receivers is within 1/2 of the grid centroid.
C19_OffsetIsRoundedCentroidDifference ==
    (h_pc \in {"query", "map", "mapped"} /\ ~offset_from_nan) =>
        LET coords == NpUnique(Range(group))
            den == Len(h_grid_points) * Len(coords)
        IN  \A c \in 1..2 :
               /\ offset[c] \in Int
               /\ NearestInteger(offset[c],
                                 CentroidGap(h_grid_points, coords, c), den)
               /\ Len(shifted_coords) = Len(coords)
               /\ 2 * Abs(CentroidGap(h_grid_points, shifted_coords, c))
                     <= den

\* a negative offset in X from a centroid difference that is no integer,
\* and a shifted centroid exactly 1/2 away from the grid centroid in Y
C19_Witness ==
    /\ h_pc = "mapped"
    /\ ~offset_from_nan
    /\ offset[1] < 0
    /\ CentroidGap(h_grid_points, NpUnique(Range(group)), 1)
          % (Len(h_grid_points) * Len(NpUnique(Range(group)))) # 0
    /\ 2 * Abs(CentroidGap(h_grid_points, shifted_coords, 2))
          = Len(h_grid_points) * Len(shifted_coords)

EmptyInput == Len(h_grid_points) = 0 \/ Len(group) = 0

----------------------------------------------------------------------------
(* process_segy_file of H_receivers_match.py, the whole script *)

InitReceiverScript ==
    /\ h_grid_points \in
          {MeshGrid(start_x, 0, 1, cols, 1, 1) :
              start_x \in {0, MaxCols}, cols \in 0..MaxCols}
    /\ \E n \in 0..MaxTraces : \E rcv \in [1..n -> ScriptShots] :
          /\ segy_files =
                <<[samples |-> 1, format |-> 1,
                   trace |-> [i \in 1..n |->
                                 Trace(<<i, i>>, rcv[i], <<1, i>>)]]>>
          /\ group = rcv
    /\ batch_size \in 1..MaxBatch
    /\ batch_start = 0
    /\ keep_indices = << >>
    /\ new_segy = NoFile
    /\ shot_receiver_count = << >>
    /\ max_receivers = 0
    /\ file_index = 1
    /\ current_trace = 0
    /\ total_traces = 0
    /\ xy_min = <<0, 0>>
    /\ s_pc = "start"
    /\ s_exc = "None"
    /\ offset = <<0, 0>>
    /\ offset_from_nan = FALSE
    /\ shifted_group = << >>
    /\ shifted_coords = << >>
    /\ query_indices = << >>
    /\ receiver_to_grid = << >>
    /\ h_pc = "start"
    /\ h_exc = "None"
    /\ IdleM /\ IdleF

\* lines 136-137: shifted_sourceX = sourceX, shifted_sourceY = sourceY (the
\* addition of the offset is commented out)
ShiftedSource(source, off) == source

\* lines 161-167: the plot, then segyio.create with the trace count of the
\* input
CreateReceiverOutput ==
    /\ h_pc = "mapped"
    /\ s_pc = "start"
    /\ new_segy' = Create(num_traces)
    /\ s_pc' = "write"
    /\ UNCHANGED <<segy_files, batch_size, batch_start, keep_indices,
                   shot_receiver_count, max_receivers, file_index,
                   current_trace, total_traces, xy_min, s_exc>>
    /\ UNCHANGED <<mvars, fvars, hvars>>

\* lines 170-199: one batch of the write loop; receiver_to_grid[...] raises
\* KeyError for a key that is not in the dict
WriteReceivers ==
    /\ s_pc = "write"
    /\ batch_start < num_traces
    /\ LET batch_end == Min(batch_start + batch_size, num_traces)
           written ==
               [trace_index \in batch_start..(batch_end - 1) |->
                   LET orig == segyfile.trace[trace_index + 1]
                   IN  Trace(ShiftedSource(orig.source, offset),
                             receiver_to_grid[shifted_group[trace_index + 1]],
                             orig.data)]
       IN  IF \E i \in batch_start..(batch_end - 1) :
                 shifted_group[i + 1] \notin DOMAIN receiver_to_grid
           THEN /\ s_exc' = "KeyError"
                /\ s_pc' = "raised"
                /\ UNCHANGED <<new_segy, batch_start>>
           ELSE /\ new_segy' =
                      WriteSlots(new_segy, batch_start, batch_end, written)
                /\ batch_start' = batch_start + batch_size
                /\ UNCHANGED <<s_pc, s_exc>>
    /\ UNCHANGED <<segy_files, batch_size, keep_indices, shot_receiver_count,
                   max_receivers, file_index, current_trace, total_traces,
                   xy_min>>
    /\ UNCHANGED <<mvars, fvars, hvars>>

FinishReceivers ==
    /\ s_pc = "write"
    /\ batch_start >= num_traces
    /\ s_pc' = "done"
    /\ UNCHANGED <<segy_files, batch_size, batch_start, keep_indices,
                   new_segy, shot_receiver_count, max_receivers, file_index,
                   current_trace, total_traces, xy_min, s_exc>>
    /\ UNCHANGED <<mvars, fvars, hvars>>

NextReceiverScript ==
    \/ ComputeOffset \/ ShiftCoordinates \/ QueryTree \/ BuildMapping
    \/ CreateReceiverOutput \/ WriteReceivers \/ FinishReceivers

SpecReceiverScript == InitReceiverScript /\ [][NextReceiverScript]_vars

----------------------------------------------------------------------------
(* shift_coordinates of K_shift_to_origin.py *)

InitShift ==
    /\ \E n \in 0..MaxTraces :
          \E src \in [1..n -> ScriptShots], rcv \in [1..n -> ScriptShots] :
             segy_files =
                <<[samples |-> 1, format |-> 1,
                   trace |-> [i \in 1..n |->
                                 Trace(src[i], rcv[i], <<1, i>>)]]>>
    /\ batch_size \in 1..MaxBatch
    /\ batch_start = 0
    /\ keep_indices = << >>
    /\ new_segy = NoFile
    /\ shot_receiver_count = << >>
    /\ max_receivers = 0
    /\ file_index = 1
    /\ current_trace = 0
    /\ total_traces = 0
    /\ xy_min = <<0, 0>>
    /\ s_pc = "start"
    /\ s_exc = "None"
    /\ IdleM /\ IdleF /\ IdleH

\* lines 91-126: the headers are read, x_min = np.min(groupX) and
\* y_min = np.min(groupY) (a ValueError on an empty array), the plot, and
\* segyio.create
ComputeShift ==
    /\ s_pc = "start"
    /\ IF num_traces = 0
       THEN /\ s_exc' = "ValueError"
            /\ s_pc' = "raised"
            /\ UNCHANGED <<xy_min, new_segy>>
       ELSE /\ xy_min' =
                  <<ColMin({segyfile.trace[i].group : i \in 1..num_traces}, 1),
                    ColMin({segyfile.trace[i].group : i \in 1..num_traces}, 2)>>
            /\ new_segy' = Create(num_traces)
            /\ s_pc' = "write"
            /\ UNCHANGED s_exc
    /\ UNCHANGED <<segy_files, batch_size, batch_start, keep_indices,
                   shot_receiver_count, max_receivers, file_index,
                   current_trace, total_traces>>
    /\ UNCHANGED <<mvars, fvars, hvars>>

\* lines 112-115: both the receiver and the shot positions minus
\* (x_min, y_min)
Shifted(p, mins) == <<p[1] - mins[1], p[2] - mins[2]>>

\* lines 129-157: one batch of the write loop
WriteShifted ==
    /\ s_pc = "write"
    /\ batch_start < num_traces
    /\ LET batch_end == Min(batch_start + batch_size, num_traces)
           written ==
               [trace_index \in batch_start..(batch_end - 1) |->
                   LET orig == segyfile.trace[trace_index + 1]
                   IN  Trace(Shifted(orig.source, xy_min),
                             Shifted(orig.group, xy_min), orig.data)]
       IN  new_segy' = WriteSlots(new_segy, batch_start, batch_end, written)
    /\ batch_start' = batch_start + batch_size
    /\ UNCHANGED <<segy_files, batch_size, keep_indices, shot_receiver_count,
                   max_receivers, file_index, current_trace, total_traces,
                   xy_min, s_pc, s_exc>>
    /\ UNCHANGED <<mvars, fvars, hvars>>

FinishShifted ==
    /\ s_pc = "write"
    /\ batch_start >= num_traces
    /\ s_pc' = "done"
    /\ UNCHANGED <<segy_files, batch_size, batch_start, keep_indices,
                   new_segy, shot_receiver_count, max_receivers, file_index,
                   current_trace, total_traces, xy_min, s_exc>>
    /\ UNCHANGED <<mvars, fvars, hvars>>

NextShift == ComputeShift \/ WriteShifted \/ FinishShifted

SpecShift == InitShift /\ [][NextShift]_vars

----------------------------------------------------------------------------
(* merge_segy_files of A_merge_segy.py *)

\* a readable SEG-Y file: the size of its sample axis, its data format and
\* at least one trace
InputFiles(f) ==
    {[samples |-> size, format |-> fmt,
      trace |-> [i \in 1..n |-> Trace(<<f, i>>, <<i, f>>, <<f, i>>)]] :
        size \in {1, 2}, fmt \in {"ibm", "ieee"}, n \in 1..MaxFileTraces}

InitMerge ==
    /\ \E n \in 0..MaxFiles :
          segy_files \in
             {fs \in [1..n -> UNION {InputFiles(f) : f \in 1..n}] :
                 \A f \in 1..n : fs[f] \in InputFiles(f)}
    /\ batch_size \in 1..MaxBatch
    /\ batch_start = 0
    /\ keep_indices = << >>
    /\ new_segy = NoFile
    /\ shot_receiver_count = << >>
    /\ max_receivers = 0
    /\ file_index = 1
    /\ current_trace = 0
    /\ total_traces = 0
    /\ xy_min = <<0, 0>>
    /\ s_pc = "check"
    /\ s_exc = "None"
    /\ IdleM /\ IdleF /\ IdleH

\* mutant: only the sample counts are compared
Incompatible_samples(segy, first_file) ==
    segy.samples # first_file.samples

\* lines 49-50: segy.samples.size != first_file['samples'].size or
\* str(segy.format) != str(first_file['format'])
Incompatible(segy, first_file) ==
    segy.samples # first_file.samples \/ segy.format # first_file.format

\* lines 39-53: one iteration of the compatibility pass
CheckFile ==
    /\ s_pc = "check"
    /\ file_index <= Len(segy_files)
    /\ IF file_index > 1 /\ Incompatible(segy_files[file_index], segy_files[1])
       THEN /\ s_exc' = "ValueError"
            /\ s_pc' = "raised"
            /\ UNCHANGED <<file_index, total_traces>>
       ELSE /\ total_traces' = total_traces + Len(segy_files[file_index].trace)
            /\ file_index' = file_index + 1
            /\ UNCHANGED <<s_pc, s_exc>>
    /\ UNCHANGED <<segy_files, batch_size, batch_start, keep_indices,
                   new_segy, shot_receiver_count, max_receivers,
                   current_trace, xy_min>>
    /\ UNCHANGED <<mvars, fvars, hvars>>

\* lines 58-72: the spec of the output (first_file is None for an empty
\* list: TypeError), segyio.create, current_trace = 0, the first file
CreateMerged ==
    /\ s_pc = "check"
    /\ file_index > Len(segy_files)
    /\ IF Len(segy_files) = 0
       THEN /\ s_exc' = "TypeError"
            /\ s_pc' = "raised"
            /\ UNCHANGED <<new_segy, file_index>>
       ELSE /\ new_segy' = Create(total_traces)
            /\ file_index' = 1
            /\ s_pc' = "merge"
            /\ UNCHANGED s_exc
    /\ current_trace' = 0
    /\ batch_start' = 0
    /\ UNCHANGED <<segy_files, batch_size, keep_indices, shot_receiver_count,
                   max_receivers, total_traces, xy_min>>
    /\ UNCHANGED <<mvars, fvars, hvars>>

\* mutant: the cursor advanced by batch_size
BatchSizeCurrent_full(start, end) == batch_size

\* line 84: batch_size_current = end - start
BatchSizeCurrent(start, end) == end - start

\* lines 81-114: one batch of the file at file_index; batch_start is
\* batch * batch_size
MergeBatch ==
    /\ s_pc = "merge"
    /\ file_index <= Len(segy_files)
    /\ batch_start < Len(segy_files[file_index].trace)
    /\ LET segy == segy_files[file_index]
           start == batch_start
           end == Min(batch_start + batch_size, Len(segy.trace))
           batch_size_current == BatchSizeCurrent(start, end)
           written ==
               [trace_index \in
                   current_trace..(current_trace + (end - start) - 1) |->
                   segy.trace[start + (trace_index - current_trace) + 1]]
       IN  /\ new_segy' =
                 WriteSlots(new_segy, current_trace,
                            current_trace + (end - start), written)
           /\ current_trace' = current_trace + batch_size_current
    /\ batch_start' = batch_start + batch_size
    /\ UNCHANGED <<segy_files, batch_size, keep_indices, shot_receiver_count,
                   max_receivers, file_index, total_traces, xy_min, s_pc,
                   s_exc>>
    /\ UNCHANGED <<mvars, fvars, hvars>>

\* the batches of a file are exhausted: the next file
NextFile ==
    /\ s_pc = "merge"
    /\ file_index <= Len(segy_files)
    /\ batch_start >= Len(segy_files[file_index].trace)
    /\ file_index' = file_index + 1
    /\ batch_start' = 0
    /\ UNCHANGED <<segy_files, batch_size, keep_indices, new_segy,
                   shot_receiver_count, max_receivers, current_trace,
                   total_traces, xy_min, s_pc, s_exc>>
    /\ UNCHANGED <<mvars, fvars, hvars>>

FinishMerge ==
    /\ s_pc = "merge"
    /\ file_index > Len(segy_files)
    /\ s_pc' = "done"
    /\ UNCHANGED <<segy_files, batch_size, batch_start, keep_indices,
                   new_segy, shot_receiver_count, max_receivers, file_index,
                   current_trace, total_traces, xy_min, s_exc>>
    /\ UNCHANGED <<mvars, fvars, hvars>>

NextMerge ==
    CheckFile \/ CreateMerged \/ MergeBatch \/ NextFile \/ FinishMerge

SpecMerge == InitMerge /\ [][NextMerge]_vars

----------------------------------------------------------------------------
(* delete_shots_by_receiver_count of O_delete_shots_by_receiver_count.py *)

InitDeleteShots ==
    /\ \E n \in 0..MaxTraces : \E src \in [1..n -> ScriptShots] :
          segy_files =
             <<[samples |-> 1, format |-> 1,
                trace |-> [i \in 1..n |-> Trace(src[i], <<i, i>>, <<1, i>>)]]>>
    /\ max_receivers \in 0..MaxReceivers
    /\ batch_size \in 1..MaxBatch
    /\ batch_start = 0
    /\ keep_indices = << >>
    /\ new_segy = NoFile
    /\ shot_receiver_count = << >>
    /\ file_index = 1
    /\ current_trace = 0
    /\ total_traces = 0
    /\ xy_min = <<0, 0>>
    /\ s_pc = "count"
    /\ s_exc = "None"
    /\ IdleM /\ IdleF /\ IdleH

\* lines 118-120: `for shot in shot_points: shot_receiver_count[shot] += 1`
\* on a defaultdict(int)
RECURSIVE CountShots(_, _)
CountShots(counts, shots) ==
    IF shots = << >> THEN counts
    ELSE LET shot == Head(shots)
             counted == [key \in DOMAIN counts \cup {shot} |->
                            IF key = shot
                            THEN (IF shot \in DOMAIN counts
                                  THEN counts[shot] ELSE 0) + 1
                            ELSE counts[key]]
         IN  CountShots(counted, Tail(shots))

\* mutant: the count of a shot is the one of the last batch it occurs in
ShotReceiverCount_batch(counts, shots) ==
    LET batch == CountShots(<< >>, shots)
    IN  [key \in DOMAIN counts \cup DOMAIN batch |->
            IF key \in DOMAIN batch THEN batch[key] ELSE counts[key]]

\* lines 100-120: the dictionary after one more batch of the first pass
ShotReceiverCount(counts, shots) == CountShots(counts, shots)

\* lines 102-120: one batch of the first pass
CountBatch ==
    /\ s_pc = "count"
    /\ batch_start < num_traces
    /\ LET start == batch_start
           end == Min(batch_start + batch_size, num_traces)
           shots == [i \in 1..(end - start) |->
                        segyfile.trace[start + i].source]
       IN  shot_receiver_count' = ShotReceiverCount(shot_receiver_count, shots)
    /\ batch_start' = batch_start + batch_size
    /\ UNCHANGED <<segy_files, batch_size, keep_indices, new_segy,
                   max_receivers, file_index, current_trace, total_traces,
                   xy_min, s_pc, s_exc>>
    /\ UNCHANGED <<mvars, fvars, hvars>>

\* lines 123-124
ValidShots ==
    {shot \in DOMAIN shot_receiver_count :
        shot_receiver_count[shot] <= max_receivers}

\* lines 123-149: valid_shots, keep_indices, spec.tracecount,
\* plot_filter_result (which indexes sourceX[keep_indices], an IndexError
\* for the empty float array np.array([])), segyio.create
FilterByCount ==
    /\ s_pc = "count"
    /\ batch_start >= num_traces
    /\ LET kept == IndicesWhere([i \in 1..num_traces |->
                                    segyfile.trace[i].source \in ValidShots],
                                1)
       IN  /\ keep_indices' = kept
           /\ IF Len(kept) = 0
              THEN /\ s_exc' = "IndexError"
                   /\ s_pc' = "raised"
                   /\ UNCHANGED new_segy
              ELSE /\ new_segy' = Create(Len(kept))
                   /\ s_pc' = "write"
                   /\ UNCHANGED s_exc
    /\ batch_start' = 0
    /\ UNCHANGED <<segy_files, batch_size, shot_receiver_count,
                   max_receivers, file_index, current_trace, total_traces,
                   xy_min>>
    /\ UNCHANGED <<mvars, fvars, hvars>>

\* lines 154-184: one batch of the write loop
WriteKept ==
    /\ s_pc = "write"
    /\ batch_start < Len(keep_indices)
    /\ LET batch_end == Min(batch_start + batch_size, Len(keep_indices))
           written ==
               [trace_index \in batch_start..(batch_end - 1) |->
                   LET orig ==
                         segyfile.trace[keep_indices[trace_index + 1] + 1]
                   IN  Trace(orig.source, orig.group, orig.data)]
       IN  new_segy' = WriteSlots(new_segy, batch_start, batch_end, written)
    /\ batch_start' = batch_start + batch_size
    /\ UNCHANGED <<segy_files, batch_size, keep_indices, shot_receiver_count,
                   max_receivers, file_index, current_trace, total_traces,
                   xy_min, s_pc, s_exc>>
    /\ UNCHANGED <<mvars, fvars, hvars>>

FinishKept ==
    /\ s_pc = "write"
    /\ batch_start >= Len(keep_indices)
    /\ s_pc' = "done"
    /\ UNCHANGED <<segy_files, batch_size, batch_start, keep_indices,
                   new_segy, shot_receiver_count, max_receivers, file_index,
                   current_trace, total_traces, xy_min, s_exc>>
    /\ UNCHANGED <<mvars, fvars, hvars>>

NextDeleteShots == CountBatch \/ FilterByCount \/ WriteKept \/ FinishKept

SpecDeleteShots == InitDeleteShots /\ [][NextDeleteShots]_vars

----------------------------------------------------------------------------
(* Properties of the scripts *)

\* the shot positions of the input traces, in file order
RawShots == [i \in 1..num_traces |-> segyfile.trace[i].source]

\* C21: the array built by np.unique holds every distinct pair of the raw
\* stream and nothing else, holds no pair twice, and np.unique applied to
\* it returns it unchanged; it is the array NpUnique gives for the set of
\* the raw pairs.
C21_DeduplicationIdempotent ==
    s_pc \in {"match", "write", "done", "raised"} =>
        /\ Range(shot_points) = Range(RawShots)
        /\ \A i, j \in DOMAIN shot_points :
              i # j => shot_points[i] # shot_points[j]
        /\ NpUniqueRows(shot_points) = shot_points
        /\ shot_points = NpUnique(Range(RawShots))

\* a raw stream that is not sorted and repeats a pair
C21_Witness ==
    /\ s_pc = "match"
    /\ Len(shot_points) >= 2
    /\ Len(RawShots) > Len(shot_points)
    /\ RowLess(RawShots[2], RawShots[1])

\* C24: the output of the shot-matching script holds exactly the input
\* traces whose shot is a key of the assignment, in their input order;
\* each carries the samples and the receiver position of its input trace
\* and the node assigned to its shot as shot position.
C24_KeepsMatchedTraces ==
    s_pc = "done" =>
        LET out == new_segy.trace
            Kept == {i \in 1..num_traces :
                        segyfile.trace[i].source \in DOMAIN shot_to_grid}
        IN  /\ new_segy.created
            /\ Len(out) = Cardinality(Kept)
            /\ {out[j].data : j \in DOMAIN out} = {<<1, i>> : i \in Kept}
            /\ \A j \in DOMAIN out : \A i \in Kept :
                  out[j].data = <<1, i>> =>
                     /\ out[j].source = shot_to_grid[segyfile.trace[i].source]
                     /\ out[j].group = segyfile.trace[i].group
            /\ \A j1, j2 \in DOMAIN out :
                  j1 < j2 => out[j1].data[2] < out[j2].data[2]

\* a trace dropped between two kept traces of one shot, the output written
\* in more than one batch
C24_Witness ==
    /\ s_pc = "done"
    /\ Len(new_segy.trace) = 2
    /\ batch_size = 1
    /\ new_segy.trace[1].data = <<1, 1>>
    /\ new_segy.trace[2].data = <<1, 3>>
    /\ new_segy.trace[1].source = new_segy.trace[2].source
    /\ new_segy.trace[1].source # segyfile.trace[1].source

\* C22: in the output of the receiver-matching script every trace's shot
\* position is its input shot position plus the offset.
C22_ShotsShiftedByOffset ==
    s_pc = "done" =>
        \A i \in 1..num_traces :
            new_segy.trace[i].source =
               <<segyfile.trace[i].source[1] + offset[1],
                 segyfile.trace[i].source[2] + offset[2]>>

\* C25: the receiver-matching script, on a non-empty grid and a non-empty
\* file and for every positive batch size, fails in no lookup and writes
\* one output trace per input trace: output trace i carries the samples of
\* input trace i, and its receiver position is the node mapped to the
\* shifted receiver of input trace i, a node of the grid.
C25_EveryTraceKeptInPlace ==
    /\ s_pc # "raised"
    /\ h_pc = "raised" => (Len(h_grid_points) = 0 \/ num_traces = 0)
    /\ s_pc \in {"write", "done"} =>
          /\ new_segy.created
          /\ Len(new_segy.trace) = num_traces
          /\ \A i \in 1..num_traces :
                new_segy.trace[i] \in {Blank} \cup
                   {tr \in {new_segy.trace[i]} :
                       /\ tr.data = <<1, i>>
                       /\ tr.group \in Range(h_grid_points)
                       /\ tr.group =
                             receiver_to_grid[<<group[i][1] + offset[1],
                                                group[i][2] + offset[2]>>]}
    /\ s_pc = "done" => \A i \in 1..num_traces : new_segy.trace[i] # Blank

\* three traces written in two batches, two of them on one node, the
\* receivers moved by a non-zero offset
C25_Witness ==
    /\ s_pc = "done"
    /\ num_traces = 3
    /\ batch_size = 2
    /\ offset # <<0, 0>>
    /\ new_segy.trace[1].group = new_segy.trace[3].group
    /\ group[1] # group[3]

\* C23: after shift_coordinates the smallest receiver X and the smallest
\* receiver Y of the output are 0 and no receiver or shot coordinate of the
\* output is negative.
C23_AllInFirstQuadrant ==
    s_pc = "done" =>
        /\ \E i \in 1..num_traces : new_segy.trace[i].group[1] = 0
        /\ \E i \in 1..num_traces : new_segy.trace[i].group[2] = 0
        /\ \A i \in 1..num_traces : \A c \in 1..2 :
              /\ new_segy.trace[i].group[c] >= 0
              /\ new_segy.trace[i].source[c] >= 0

\* the traces of the files f.. of the list, one file after the other
RECURSIVE Concatenation(_)
Concatenation(files) ==
    IF files = << >> THEN << >>
    ELSE Head(files).trace \o Concatenation(Tail(files))

\* the file at f has the sample count and the format of the first file
SameLayout(f) ==
    /\ segy_files[f].samples = segy_files[1].samples
    /\ segy_files[f].format = segy_files[1].format

Compatible == \A f \in DOMAIN segy_files : SameLayout(f)

\* C26: for a non-empty list of compatible files and a positive batch size
\* the merge raises nothing; while it runs, the slots below the write
\* cursor are written and those from it on are not, and a written slot is
\* never written again; when it finishes, the output is the concatenation
\* of the inputs in list order and current_trace = total_traces = the sum
\* of the trace counts.
C26_OutputIsConcatenation ==
    /\ [](/\ (Compatible /\ Len(segy_files) > 0) => s_pc # "raised"
          /\ s_pc \in {"merge", "done"} =>
                /\ Len(new_segy.trace) = total_traces
                /\ total_traces = Len(Concatenation(segy_files))
                /\ \A i \in 1..total_traces :
                      (new_segy.trace[i] # Blank) <=> (i <= current_trace)
          /\ s_pc = "done" =>
                /\ new_segy.trace = Concatenation(segy_files)
                /\ current_trace = total_traces)
    /\ [][\A i \in DOMAIN new_segy.trace :
             new_segy.trace[i] # Blank =>
                /\ i \in DOMAIN new_segy'.trace
                /\ new_segy'.trace[i] = new_segy.trace[i]]_vars

\* two files of two traces merged with batches of one trace
C26_Witness ==
    /\ s_pc = "done"
    /\ Len(segy_files) = 2
    /\ batch_size = 1
    /\ Len(new_segy.trace) = 4
    /\ new_segy.trace[3].data = <<2, 1>>

\* C27: when a file of the list differs from the first in the size of its
\* sample axis or in its format, the output file is never created: the
\* call stays in the compatibility pass until it raises ValueError.
C27_IncompatibleRejectedBeforeWriting ==
    ~Compatible =>
        /\ ~new_segy.created
        /\ s_pc \in {"check", "raised"}
        /\ s_pc = "raised" =>
              /\ s_exc = "ValueError"
              /\ ~SameLayout(file_index)
              /\ \A f \in 1..(file_index - 1) : SameLayout(f)

\* the second file has the sample count of the first but another format
C27_Witness ==
    /\ s_pc = "raised"
    /\ s_exc = "ValueError"
    /\ ~new_segy.created
    /\ Len(segy_files) = 2
    /\ segy_files[2].samples = segy_files[1].samples
    /\ segy_files[2].format # segy_files[1].format

\* the number of traces of the whole file fired at the shot of trace i
TracesOfShot(i) ==
    Cardinality({j \in 1..num_traces :
                    segyfile.trace[j].source = segyfile.trace[i].source})

\* the traces of the file whose shot has at most max_receivers traces, in
\* file order
FewReceiverTraces ==
    LET kept == IndicesWhere([i \in 1..num_traces |->
                                 TracesOfShot(i) <= max_receivers], 1)
    IN  [n \in DOMAIN kept |-> segyfile.trace[kept[n] + 1]]

\* C28: the traces written by delete_shots_by_receiver_count are those
\* whose shot position has at most max_receivers traces in the whole file,
\* whatever the batches, unchanged and in file order; the call fails only
\* when no trace is to be kept.
C28_KeepsShotsWithFewReceivers ==
    /\ s_pc \in {"write", "done"} =>
          /\ Len(new_segy.trace) = Len(FewReceiverTraces)
          /\ \A n \in DOMAIN keep_indices :
                segyfile.trace[keep_indices[n] + 1] = FewReceiverTraces[n]
    /\ s_pc = "done" => new_segy.trace = FewReceiverTraces
    /\ s_pc = "raised" => FewReceiverTraces = << >>

\* batches of one trace, a shot fired twice and dropped, a shot fired once
\* and kept
C28_Witness ==
    /\ s_pc = "done"
    /\ batch_size = 1
    /\ max_receivers = 1
    /\ num_traces = 3
    /\ segyfile.trace[1].source = segyfile.trace[3].source
    /\ Len(new_segy.trace) = 1
    /\ new_segy.trace[1] = segyfile.trace[2]

====
